---------------------------- MODULE Spec2Model ----------------------------
(***************************************************************************)
(* maricraft: the world bootstrap (setup / loading / finalize), the cube   *)
(* mesh template (mesh.rs) and the block pointer handlers of src/main.rs.  *)
(*                                                                         *)
(* Numbers: mesh positions are stored in units of 0.5 (min = -1 stands for *)
(* -0.5, max = 1 for 0.5); UV coordinates are stored as numerators over    *)
(* TEXTURE_SIZE (u = 17 stands for 17/16).  Block translations are the     *)
(* integer-valued f32 triples the code builds.                             *)
(***************************************************************************)
EXTENDS Integers, Sequences, FiniteSets, TLC

VARIABLES
    gameState,      \* State<GameState>: "Setup" or "InGame"
    nextState,      \* NextState<GameState>: NoPending or the pending state
    textureFolder,  \* the TextureFolder resource: NoHandle or the folder handle
    folder,         \* the asset paths the "textures" folder yields, in order
    load,           \* asset server's progress on the folder load
    assetEvents,    \* AssetEvent<LoadedFolder> events not yet read by `loading`
    images,         \* Assets<Image> entries added by finalize
    meshes,         \* Assets<Mesh>: handle (index) -> mesh
    materials,      \* Assets<StandardMaterial>: handle (index) -> material
    state,          \* the State resource: NoState or the published record
    blocks,         \* entities with the Block component: entity -> components
    nextEntity,     \* next fresh entity id
    finalizeRuns,   \* number of times the finalize system has started
    panicked,       \* the process died in an unwrap / index panic
    args,           \* mesh.rs on its own: the six arguments of a new_block call
    result          \* mesh.rs on its own: the Mesh that call returned, or NoMesh

vars == <<gameState, nextState, textureFolder, folder, load, assetEvents,
          images, meshes, materials, state, blocks, nextEntity,
          finalizeRuns, panicked, args, result>>

-----------------------------------------------------------------------------
(* Bounds of the model *)

\* how many of the three base textures the folder may hold
MaxFolderLen == 3
\* number of extra textures the folder may yield before them
MaxPad == 15
\* load-complete signals for the folder that may wait unread at a time
MaxSignals == 2
\* unread asset events at which the asset server still reports another folder
MaxQueue == 1
\* blocks placed by primary clicks
MaxPlaced == 2
\* tile indices 0..MaxTile, and the last tile of the row, are passed to new_block
MaxTile == 1

-----------------------------------------------------------------------------
(* mesh.rs *)

TEXTURE_SIZE == 16

\* faulty variant of block_uv: only the U coordinate of max is divided, so the
\* rectangle spans the whole height of the image
block_uv_full_height(index) ==
    LET position == <<index, 0>>
    IN  [min |-> <<position[1], position[2]>>,
         max |-> <<position[1] + 1, (position[2] + 1) * TEXTURE_SIZE>>]

\* block_uv: [min, max] of the tile's rectangle, numerators over TEXTURE_SIZE
block_uv(index) ==
    LET position == <<index, 0>>
    IN  [min |-> <<position[1], position[2]>>,
         max |-> <<position[1] + 1, position[2] + 1>>]

\* faulty variant of Vertex: the normal is stored pointing into the cube
VertexInward(p, n, uv) == [p |-> p, n |-> <<-n[1], -n[2], -n[3]>>, uv |-> uv]

\* faulty variant of Vertex: V is taken from the other edge of the tile row
VertexUpsideDown(p, n, uv) == [p |-> p, n |-> n, uv |-> <<uv[1], 1 - uv[2]>>]

\* one entry of the vertex table: (position, normal, uv)
Vertex(p, n, uv) == [p |-> p, n |-> n, uv |-> uv]

\* faulty variant of block_indices: each quad is closed with the vertex after
\* its fourth instead of its first
block_indices_open ==
    << 0, 1, 2, 2, 3, 4,
       4, 5, 6, 6, 7, 8,
       8, 9, 10, 10, 11, 12,
       12, 13, 14, 14, 15, 16,
       16, 17, 18, 18, 19, 20,
       20, 21, 22, 22, 23, 24 >>

\* lines 79-86: Indices::U32(vec![..])
block_indices ==
    << 0, 1, 2, 2, 3, 0,        \* Front
       4, 5, 6, 6, 7, 4,        \* Back
       8, 9, 10, 10, 11, 8,     \* Right
       12, 13, 14, 14, 15, 12,  \* Left
       16, 17, 18, 18, 19, 16,  \* Top
       20, 21, 22, 22, 23, 20 >>  \* Bottom

new_block(front, back, right, left, top, bottom) ==
    LET f == block_uv(front)
        b == block_uv(back)
        r == block_uv(right)
        l == block_uv(left)
        t == block_uv(top)
        d == block_uv(bottom)
        min == -1
        max == 1
        vertices == <<
            \* Front
            Vertex(<<min, min, max>>, <<0, 0, 1>>, <<f.min[1], f.max[2]>>),
            Vertex(<<max, min, max>>, <<0, 0, 1>>, <<f.max[1], f.max[2]>>),
            Vertex(<<max, max, max>>, <<0, 0, 1>>, <<f.max[1], f.min[2]>>),
            Vertex(<<min, max, max>>, <<0, 0, 1>>, <<f.min[1], f.min[2]>>),
            \* Back
            Vertex(<<min, max, min>>, <<0, 0, -1>>, <<b.max[1], b.min[2]>>),
            Vertex(<<max, max, min>>, <<0, 0, -1>>, <<b.min[1], b.min[2]>>),
            Vertex(<<max, min, min>>, <<0, 0, -1>>, <<b.min[1], b.max[2]>>),
            Vertex(<<min, min, min>>, <<0, 0, -1>>, <<b.max[1], b.max[2]>>),
            \* Right
            Vertex(<<max, min, min>>, <<1, 0, 0>>, <<r.max[1], r.max[2]>>),
            Vertex(<<max, max, min>>, <<1, 0, 0>>, <<r.max[1], r.min[2]>>),
            Vertex(<<max, max, max>>, <<1, 0, 0>>, <<r.min[1], r.min[2]>>),
            Vertex(<<max, min, max>>, <<1, 0, 0>>, <<r.min[1], r.max[2]>>),
            \* Left
            Vertex(<<min, min, max>>, <<-1, 0, 0>>, <<l.max[1], l.max[2]>>),
            Vertex(<<min, max, max>>, <<-1, 0, 0>>, <<l.max[1], l.min[2]>>),
            Vertex(<<min, max, min>>, <<-1, 0, 0>>, <<l.min[1], l.min[2]>>),
            Vertex(<<min, min, min>>, <<-1, 0, 0>>, <<l.min[1], l.max[2]>>),
            \* Top
            Vertex(<<max, max, min>>, <<0, 1, 0>>, <<t.max[1], t.min[2]>>),
            Vertex(<<min, max, min>>, <<0, 1, 0>>, <<t.min[1], t.min[2]>>),
            Vertex(<<min, max, max>>, <<0, 1, 0>>, <<t.min[1], t.max[2]>>),
            Vertex(<<max, max, max>>, <<0, 1, 0>>, <<t.max[1], t.max[2]>>),
            \* Bottom
            Vertex(<<max, min, max>>, <<0, -1, 0>>, <<d.max[1], d.max[2]>>),
            Vertex(<<min, min, max>>, <<0, -1, 0>>, <<d.max[1], d.min[2]>>),
            Vertex(<<min, min, min>>, <<0, -1, 0>>, <<d.min[1], d.min[2]>>),
            Vertex(<<max, min, min>>, <<0, -1, 0>>, <<d.min[1], d.max[2]>>) >>
    IN  [positions |-> [i \in 1..Len(vertices) |-> vertices[i].p],
         normals   |-> [i \in 1..Len(vertices) |-> vertices[i].n],
         uvs       |-> [i \in 1..Len(vertices) |-> vertices[i].uv],
         indices   |-> block_indices]

-----------------------------------------------------------------------------
(* The texture folder: what the asset server's folder scan can yield *)

GrassSide == <<"textures", "grass_side.png">>
GrassTop  == <<"textures", "grass_top.png">>
Dirt      == <<"textures", "dirt.png">>
\* load_folder scans recursively: a second dirt.png in a subdirectory
OldDirt   == <<"textures", "old", "dirt.png">>

BasePaths == {GrassSide, GrassTop, Dirt}

\* k further textures, yielded first
Pad(k) == [i \in 1..k |-> <<"textures", "pad" \o ToString(i) \o ".png">>]

\* sequences over S of length n without repetition
RECURSIVE Arrangements(_, _)
Arrangements(S, n) ==
    IF n = 0 THEN {<<>>}
    ELSE UNION {{<<x>> \o s : s \in Arrangements(S \ {x}, n - 1)} : x \in S}

\* at most MaxFolderLen of the three base textures in any order
Listings == UNION {Arrangements(BasePaths, n) : n \in 0..MaxFolderLen}

\* one scan order of the three: grass_side, grass_top, dirt
ScanOrder == <<GrassSide, GrassTop, Dirt>>
Prefixes == {s \in Listings : \A i \in 1..Len(s) : s[i] = ScanOrder[i]}

\* every listing; and none or MaxPad further textures, then a prefix of the
\* scan order, then possibly the second dirt.png
Folders ==
    Listings \cup
    {Pad(k) \o s \o d :
        k \in {0, MaxPad}, s \in Prefixes, d \in {<<>>, <<OldDirt>>}}

\* handle.path().unwrap().path().file_name().unwrap().to_string_lossy()
file_name(path) == path[Len(path)]

-----------------------------------------------------------------------------
(* main.rs: values *)

NoPending == "NoPending"
NoHandle  == "NoHandle"
TexturesHandle == "textures"
OtherHandle    == "other"
NoState == [present |-> FALSE]
NoArgs == <<>>
NoMesh == [positions |-> <<>>, normals |-> <<>>, uvs |-> <<>>, indices |-> <<>>]

GRID_MAX == 16
SHEET_Y  == -10

Vec3Y == <<0, 1, 0>>
Vec3Add(a, b) == <<a[1] + b[1], a[2] + b[2], a[3] + b[3]>>

\* faulty variant of GridPosition: the outer loop variable is used for both
\* horizontal coordinates
GridPositionDiagonal(k) ==
    <<(k - 1) \div (GRID_MAX + 1), SHEET_Y, (k - 1) \div (GRID_MAX + 1)>>

\* lines 184-188: the k-th position of the two nested loops
GridPosition(k) ==
    <<(k - 1) \div (GRID_MAX + 1), SHEET_Y, (k - 1) % (GRID_MAX + 1)>>
GridCount == (GRID_MAX + 1) * (GRID_MAX + 1)

Buttons == {"Primary", "Secondary", "Middle"}

\* the blocks the pointer is moved over in the model: those of these columns
PickColumns == {<<3, 4>>}
Pickable(e) == <<blocks[e].pos[1], blocks[e].pos[3]>> \in PickColumns
\* the sheet takes the entities 1..GridCount in loop order, the blocks placed
\* by clicks the entities after them
SheetPicks ==
    {k \in 1..GridCount :
        <<GridPosition(k)[1], GridPosition(k)[3]>> \in PickColumns}
PickEntities ==
    {e \in (SheetPicks \cup ((GridCount + 1)..(nextEntity - 1)))
            \cap DOMAIN blocks : Pickable(e)}

Event(kind, id) == [kind |-> kind, id |-> id]

\* faulty variant of is_loaded_with_dependencies: the handle is not compared
is_loaded_any_folder(event, handle) == event.kind = "LoadedWithDependencies"

\* AssetEvent::is_loaded_with_dependencies(&texture_folder.0)
is_loaded_with_dependencies(event, handle) ==
    event.kind = "LoadedWithDependencies" /\ event.id = handle

\* faulty variant of LoadingRuns: the run condition names the wrong state
LoadingRunsInGame(current) == current = "InGame"

\* loading.run_if(in_state(GameState::Setup))
LoadingRuns(current) == current = "Setup"

\* the body of `loading`: the NextState left after reading every event
RECURSIVE loading(_, _, _)
loading(next, handle, events) ==
    IF events = <<>> THEN next
    ELSE loading(IF is_loaded_with_dependencies(Head(events), handle)
                     THEN "InGame" ELSE next,
                 handle, Tail(events))

\* OnExit(GameState::Setup) runs when a pending state replaces Setup
ExitsSetup(current, next) ==
    next # NoPending /\ current = "Setup" /\ next # current

\* faulty variant of TransitionTarget: the pending state is never applied
TransitionStays(current, next) == current

\* faulty variant of TransitionTarget: without a pending state the default
\* state is entered again
TransitionDefaults(current, next) == IF next = NoPending THEN "Setup" ELSE next

\* State<GameState> after the StateTransition schedule
TransitionTarget(current, next) == IF next = NoPending THEN current ELSE next

-----------------------------------------------------------------------------
(* main.rs: finalize *)

\* HashMap::insert: the value of an existing key is replaced
Insert(map, key, value) == (key :> value) @@ map

\* faulty variant of TextureLoop: index is incremented before the insert
RECURSIVE TextureLoopCountFirst(_, _, _)
TextureLoopCountFirst(handles, texture_map, index) ==
    IF handles = <<>> THEN [texture_map |-> texture_map, index |-> index]
    ELSE TextureLoopCountFirst(Tail(handles),
                     Insert(texture_map, file_name(Head(handles)), index + 1),
                     index + 1)

\* lines 133-153: the loop over texture_folder.handles
RECURSIVE TextureLoop(_, _, _)
TextureLoop(handles, texture_map, index) ==
    IF handles = <<>> THEN [texture_map |-> texture_map, index |-> index]
    ELSE TextureLoop(Tail(handles),
                     Insert(texture_map, file_name(Head(handles)), index),
                     index + 1)

\* the names indexed at lines 161-166
FaceNames == <<"grass_side.png", "grass_side.png", "grass_side.png",
               "grass_side.png", "grass_top.png", "dirt.png">>

\* faulty variant of Index: a missing key yields index 0 instead of a panic
IndexOrDefault(texture_map, name) ==
    [panic |-> FALSE,
     value |-> IF name \in DOMAIN texture_map THEN texture_map[name] ELSE 0]

\* texture_map[name]: HashMap's Index yields the value, or panics on a
\* missing key
Index(texture_map, name) ==
    IF name \in DOMAIN texture_map
        THEN [panic |-> FALSE, value |-> texture_map[name]]
        ELSE [panic |-> TRUE, value |-> 0]

LookupPanics(texture_map) ==
    \E i \in 1..Len(FaceNames) : Index(texture_map, FaceNames[i]).panic

BlockMesh(texture_map) ==
    new_block(Index(texture_map, FaceNames[1]).value,
              Index(texture_map, FaceNames[2]).value,
              Index(texture_map, FaceNames[3]).value,
              Index(texture_map, FaceNames[4]).value,
              Index(texture_map, FaceNames[5]).value,
              Index(texture_map, FaceNames[6]).value)

\* faulty variant of spawn_block: the handle after the template's is cloned
spawn_block_other_mesh(st, position) ==
    [pos |-> position, mesh |-> st.block + 1, material |-> st.material,
     wireframe |-> FALSE]

\* the components spawn_block gives the entity
spawn_block(st, position) ==
    [pos |-> position, mesh |-> st.block, material |-> st.material,
     wireframe |-> FALSE]

-----------------------------------------------------------------------------
(* The state after construction: App::new() ... init_state::<GameState>() *)

Init ==
    /\ folder \in Folders
    /\ gameState = "Setup"
    /\ nextState = NoPending
    /\ textureFolder = NoHandle
    /\ load = "idle"
    /\ assetEvents = <<>>
    /\ images = <<>>
    /\ meshes = <<>>
    /\ materials = <<>>
    /\ state = NoState
    /\ blocks = <<>>
    /\ nextEntity = 1
    /\ finalizeRuns = 0
    /\ panicked = FALSE
    /\ args = NoArgs
    /\ result = NoMesh

\* OnEnter(GameState::Setup): setup issues the batch load and records the handle
Setup ==
    /\ ~panicked
    /\ gameState = "Setup"
    /\ textureFolder = NoHandle
    /\ textureFolder' = TexturesHandle
    /\ load' = "loading"
    /\ UNCHANGED <<gameState, nextState, folder, assetEvents, images,
                   meshes, materials, state, blocks, nextEntity,
                   finalizeRuns, panicked>>
    /\ UNCHANGED <<args, result>>

-----------------------------------------------------------------------------
(* The asset server (external): the outcomes of the folder load *)

\* every dependency of the folder is loaded: Added, then LoadedWithDependencies
AssetLoaded ==
    /\ ~panicked
    /\ load = "loading"
    /\ load' = "loaded"
    /\ assetEvents' = assetEvents \o <<Event("Added", TexturesHandle),
                          Event("LoadedWithDependencies", TexturesHandle)>>
    /\ UNCHANGED <<gameState, nextState, textureFolder, folder, images, meshes,
                   materials, state, blocks, nextEntity,
                   finalizeRuns, panicked>>
    /\ UNCHANGED <<args, result>>

\* load-complete signals for the texture folder not yet read or dropped
PendingSignals ==
    Cardinality({i \in 1..Len(assetEvents) :
                    assetEvents[i] =
                        Event("LoadedWithDependencies", TexturesHandle)})

\* the folder is reloaded and the signal is sent again
AssetReloaded ==
    /\ ~panicked
    /\ load = "loaded"
    /\ PendingSignals < MaxSignals
    /\ assetEvents' = Append(assetEvents,
                             Event("LoadedWithDependencies", TexturesHandle))
    /\ UNCHANGED <<gameState, nextState, textureFolder, folder, load, images,
                   meshes, materials, state, blocks, nextEntity,
                   finalizeRuns, panicked>>
    /\ UNCHANGED <<args, result>>

\* the load fails (no such directory, an unreadable file): no signal is sent
AssetLoadFails ==
    /\ ~panicked
    /\ load = "loading"
    /\ load' = "failed"
    /\ UNCHANGED <<gameState, nextState, textureFolder, folder, assetEvents,
                   images, meshes, materials, state, blocks,
                   nextEntity, finalizeRuns, panicked>>
    /\ UNCHANGED <<args, result>>

\* an AssetEvent<LoadedFolder> about another folder
OtherAssetEvent ==
    /\ ~panicked
    /\ gameState = "Setup"
    /\ Len(assetEvents) < MaxQueue
    /\ assetEvents' = Append(assetEvents,
                             Event("LoadedWithDependencies", OtherHandle))
    /\ UNCHANGED <<gameState, nextState, textureFolder, folder, load, images,
                   meshes, materials, state, blocks, nextEntity,
                   finalizeRuns, panicked>>
    /\ UNCHANGED <<args, result>>

-----------------------------------------------------------------------------
(* One pass of the main schedule: StateTransition, then Update *)

\* Update after the transition: `loading` if its run condition holds; the
\* events it does not read are dropped by the event buffers
Update(current) ==
    /\ nextState' = IF LoadingRuns(current)
                        THEN loading(NoPending, textureFolder, assetEvents)
                        ELSE NoPending
    /\ assetEvents' = <<>>

\* OnExit(GameState::Setup): finalize.  The texture loop runs once and its
\* result is bound, as the locals texture_map and index are.
Finalize(target) ==
    /\ finalizeRuns' = finalizeRuns + 1
    /\ IF load # "loaded"
       THEN \* line 130: loaded_folders.get(..).unwrap() on a folder not loaded
            /\ panicked' = TRUE
            /\ UNCHANGED <<gameState, nextState, assetEvents, images, meshes,
                           materials, state, blocks, nextEntity>>
       ELSE \E loop \in {TextureLoop(folder, <<>>, 0)} :
            LET atlas == [textures |-> folder, sampler |-> "nearest"]
                texture_atlas == Len(images) + 1
                block    == Len(meshes) + 1
                material == Len(materials) + 1
            IN  /\ images' = Append(images, atlas)
                /\ IF LookupPanics(loop.texture_map)
                   THEN \* lines 161-166: texture_map[..] on a missing key
                        /\ panicked' = TRUE
                        /\ UNCHANGED <<gameState, nextState, assetEvents,
                                       meshes, materials, state, blocks,
                                       nextEntity>>
                   ELSE /\ meshes' = meshes \o
                              <<BlockMesh(loop.texture_map), [cuboid |-> <<2, 4, 2>>]>>
                        /\ materials' = materials \o
                              <<[base_color_texture |-> texture_atlas],
                                [base_color_texture |-> 0]>>
                        /\ state' = [present |-> TRUE, block |-> block,
                                     texture_atlas |-> texture_atlas,
                                     texture_map |-> loop.texture_map,
                                     material |-> material]
                        /\ blocks' =
                              [e \in DOMAIN blocks \cup
                                     (nextEntity .. nextEntity + GridCount - 1) |->
                                  IF e \in DOMAIN blocks THEN blocks[e]
                                  ELSE spawn_block(state',
                                           GridPosition(e - nextEntity + 1))]
                        /\ nextEntity' = nextEntity + GridCount
                        /\ gameState' = target
                        /\ Update(target)
                        /\ UNCHANGED panicked

Tick ==
    /\ ~panicked
    /\ textureFolder # NoHandle
    /\ IF ExitsSetup(gameState, nextState)
       THEN /\ Finalize(TransitionTarget(gameState, nextState))
            /\ UNCHANGED <<textureFolder, folder, load>>
       ELSE /\ gameState' = TransitionTarget(gameState, nextState)
            /\ Update(TransitionTarget(gameState, nextState))
            /\ UNCHANGED <<textureFolder, folder, load, images, meshes,
                           materials, state, blocks, nextEntity,
                           finalizeRuns, panicked>>
    /\ UNCHANGED <<args, result>>

-----------------------------------------------------------------------------
(* The observers spawn_block attaches to every block *)

on_pointer_over(e) ==
    /\ ~panicked
    /\ e \in DOMAIN blocks
    /\ blocks' = [blocks EXCEPT ![e].wireframe = TRUE]
    /\ UNCHANGED <<gameState, nextState, textureFolder, folder, load,
                   assetEvents, images, meshes, materials, state,
                   nextEntity, finalizeRuns, panicked>>
    /\ UNCHANGED <<args, result>>

\* faulty variant of on_pointer_out: Wireframe is removed from every block
on_pointer_out_all(e) ==
    /\ ~panicked
    /\ e \in DOMAIN blocks
    /\ blocks' = [x \in DOMAIN blocks |-> [blocks[x] EXCEPT !.wireframe = FALSE]]
    /\ UNCHANGED <<gameState, nextState, textureFolder, folder, load,
                   assetEvents, images, meshes, materials, state,
                   nextEntity, finalizeRuns, panicked>>
    /\ UNCHANGED <<args, result>>

on_pointer_out(e) ==
    /\ ~panicked
    /\ e \in DOMAIN blocks
    /\ blocks' = [blocks EXCEPT ![e].wireframe = FALSE]
    /\ UNCHANGED <<gameState, nextState, textureFolder, folder, load,
                   assetEvents, images, meshes, materials, state,
                   nextEntity, finalizeRuns, panicked>>
    /\ UNCHANGED <<args, result>>

\* faulty variant of ClickPosition: the offset taken along Z instead of Y
ClickPositionAlongZ(translation) == Vec3Add(translation, <<0, 0, 1>>)

\* faulty variant of ClickPosition: the offset is subtracted
ClickPositionBelow(translation) == Vec3Add(translation, <<0, -1, 0>>)

\* line 278: the clicked block's translation + Vec3::Y
ClickPosition(translation) == Vec3Add(translation, Vec3Y)

\* faulty variant of despawn_recursive: the blocks resting on the clicked one
\* are taken for its children and leave with it
despawn_column(registry, e) ==
    [x \in {y \in DOMAIN registry :
                ~(/\ registry[y].pos[1] = registry[e].pos[1]
                  /\ registry[y].pos[3] = registry[e].pos[3]
                  /\ registry[y].pos[2] >= registry[e].pos[2])} |-> registry[x]]

\* line 282: the block entity owns no children (its observers are entities
\* of their own), so the entity alone leaves the registry
despawn_recursive(registry, e) ==
    [x \in DOMAIN registry \ {e} |-> registry[x]]

on_pointer_click(e, button) ==
    /\ ~panicked
    /\ e \in DOMAIN blocks
    /\ button = "Primary" => nextEntity <= GridCount + MaxPlaced
    /\ LET position == ClickPosition(blocks[e].pos)
       IN  CASE button = "Primary" ->
                  /\ nextEntity' = nextEntity + 1
                  /\ blocks' = (nextEntity :> spawn_block(state, position))
                                    @@ blocks
            [] button = "Secondary" ->
                  /\ UNCHANGED nextEntity
                  /\ blocks' = despawn_recursive(blocks, e)
            [] OTHER -> UNCHANGED <<blocks, nextEntity>>
    /\ UNCHANGED <<gameState, nextState, textureFolder, folder, load,
                   assetEvents, images, meshes, materials, state,
                   finalizeRuns, panicked>>
    /\ UNCHANGED <<args, result>>

\* the picking backend addresses each event to one existing block entity
PointerOver  == \E e \in PickEntities : on_pointer_over(e)
PointerOut   == \E e \in PickEntities : on_pointer_out(e)
PointerClick == \E e \in PickEntities : \E b \in Buttons : on_pointer_click(e, b)

-----------------------------------------------------------------------------

Next ==
    \/ Setup
    \/ AssetLoaded
    \/ AssetReloaded
    \/ AssetLoadFails
    \/ OtherAssetEvent
    \/ Tick
    \/ PointerOver
    \/ PointerOut
    \/ PointerClick

Spec == Init /\ [][Next]_vars

-----------------------------------------------------------------------------
(* mesh.rs on its own: calls of new_block with arguments of any valid kind *)

session == <<gameState, nextState, textureFolder, folder, load, assetEvents,
             images, meshes, materials, state, blocks, nextEntity,
             finalizeRuns, panicked>>

\* the tile indices passed: the first ones and the last of [0, TEXTURE_SIZE)
Tiles == (0..MaxTile) \cup {TEXTURE_SIZE - 1}

\* the six faces in argument order
Faces == 1..6

\* faulty variant of Call: the caller passes `top` for `bottom` as well
CallTopTwice(a) == new_block(a[1], a[2], a[3], a[4], a[5], a[5])

\* new_block(front, back, right, left, top, bottom)
Call(a) == new_block(a[1], a[2], a[3], a[4], a[5], a[6])

MeshInit ==
    /\ args \in [Faces -> Tiles]
    /\ result = NoMesh
    /\ folder = <<>>
    /\ gameState = "Setup"
    /\ nextState = NoPending
    /\ textureFolder = NoHandle
    /\ load = "idle"
    /\ assetEvents = <<>>
    /\ images = <<>>
    /\ meshes = <<>>
    /\ materials = <<>>
    /\ state = NoState
    /\ blocks = <<>>
    /\ nextEntity = 1
    /\ finalizeRuns = 0
    /\ panicked = FALSE

\* the first call
NewBlock ==
    /\ result = NoMesh
    /\ result' = Call(args)
    /\ UNCHANGED <<args, session>>

\* a further call whose arguments differ from the last call's in one face
NewBlockOtherFace ==
    \E f \in Faces : \E i \in Tiles :
        /\ result # NoMesh
        /\ args[f] # i
        /\ args' = [args EXCEPT ![f] = i]
        /\ result' = Call(args')
        /\ UNCHANGED session

MeshNext ==
    \/ NewBlock
    \/ NewBlockOtherFace

MeshSpec == MeshInit /\ [][MeshNext]_vars

-----------------------------------------------------------------------------
(* Vocabulary of the properties *)

\* the session is observable in Ready
Ready == gameState = "InGame" /\ ~panicked

\* entities that were in the registry and left it
Despawned == (1..(nextEntity - 1)) \ DOMAIN blocks

\* blocks placed by a click (the sheet holds the first GridCount entities)
Placed == {n \in DOMAIN blocks : n > GridCount}

\* the block of the initial sheet at (3, -10, 4)
SheetBlock34 == 3 * (GRID_MAX + 1) + 4 + 1

-----------------------------------------------------------------------------
(* C1 *)

PlacedOneAbove(e) ==
    LET new == DOMAIN blocks' \ DOMAIN blocks
    IN  /\ Ready
        /\ Cardinality(new) = 1
        /\ \A n \in new :
              /\ blocks'[n].pos = <<blocks[e].pos[1], blocks[e].pos[2] + 1,
                                    blocks[e].pos[3]>>
              /\ blocks'[n].mesh = blocks[e].mesh
              /\ blocks'[n].material = blocks[e].material
        /\ \A o \in DOMAIN blocks : o \in DOMAIN blocks' /\ blocks'[o] = blocks[o]
        /\ meshes' = meshes
        /\ materials' = materials
        /\ images' = images
        /\ state' = state

\* C1: in Ready, a primary click on a live block at (x, y, z) adds exactly
\* one block, at (x, y+1, z), with the clicked block's mesh and material
\* handles; no asset is allocated and every block already in the registry,
\* the clicked one included, stays as it was.
C1_PrimaryClickPlacesOneAbove ==
    [][\A e \in PickEntities :
          on_pointer_click(e, "Primary") => PlacedOneAbove(e)]_vars

\* a primary click on the block at (3, -10, 4) has placed a block at (3, -9, 4)
C1_Witness ==
    /\ Ready
    /\ SheetBlock34 \in DOMAIN blocks
    /\ blocks[SheetBlock34].pos = <<3, -10, 4>>
    /\ \E n \in Placed : blocks[n].pos = <<3, -9, 4>>

-----------------------------------------------------------------------------
(* C2 *)

RemovedOnly(e) ==
    /\ Ready
    /\ e \notin DOMAIN blocks'
    /\ DOMAIN blocks' = DOMAIN blocks \ {e}
    /\ \A o \in DOMAIN blocks \ {e} : blocks'[o] = blocks[o]

\* C2: in Ready, a secondary click on a live block b removes exactly b: every
\* other block stays in the registry with its position, handles and highlight;
\* an entity that has left the registry never returns to it and no Over, Out
\* or Click handler acts for it.
C2_SecondaryClickRemovesOnlyB ==
    [][/\ \A e \in PickEntities :
             on_pointer_click(e, "Secondary") => RemovedOnly(e)
       /\ \A b \in Despawned :
             /\ b \notin DOMAIN blocks'
             /\ ~on_pointer_over(b)
             /\ ~on_pointer_out(b)
             /\ \A button \in Buttons : ~on_pointer_click(b, button)]_vars

\* the sheet block at (3, -10, 4) was removed after a block was placed by
\* clicking it; the placed block is still there
C2_Witness ==
    /\ Ready
    /\ SheetBlock34 \in Despawned
    /\ \E n \in Placed : blocks[n].pos = <<3, -9, 4>>

-----------------------------------------------------------------------------
(* C3 *)

\* C3: finalize runs at most once, and only on the transition out of Setup
\* that `loading` requested after the asset server sent the load-complete
\* signal for the texture folder: never before that signal, not twice for
\* several signals read in one tick, not again for a signal sent later.
C3_FinalizeOnceOnSignal ==
    [][finalizeRuns' # finalizeRuns =>
          /\ finalizeRuns = 0
          /\ finalizeRuns' = 1
          /\ load = "loaded"
          /\ gameState = "Setup"
          /\ nextState = "InGame"]_vars

\* finalize has run once, the session is Ready, the signal was sent again
\* afterwards and waits unread
C3_Witness ==
    /\ Ready
    /\ finalizeRuns = 1
    /\ \E i \in 1..Len(assetEvents) :
          is_loaded_with_dependencies(assetEvents[i], textureFolder)

-----------------------------------------------------------------------------
(* C4 *)

\* C4: while the session is not yet in Ready (setup, every loading tick, a
\* startup that panicked) the world is untouched: no block is in the
\* registry, no mesh or material is allocated, the State resource with the
\* texture table is absent, and no block can receive a pointer event.
C4_NoWorldBeforeReady ==
    gameState = "Setup" =>
        /\ DOMAIN blocks = {}
        /\ PickEntities = {}
        /\ meshes = <<>>
        /\ materials = <<>>
        /\ ~state.present
        /\ nextEntity = 1

\* `loading` has read the signal and asked for InGame; the transition has not
\* run yet
C4_Witness ==
    /\ gameState = "Setup"
    /\ nextState = "InGame"
    /\ load = "loaded"
    /\ DOMAIN blocks = {}

-----------------------------------------------------------------------------
(* C5 *)

Names(handles) == {file_name(handles[i]) : i \in 1..Len(handles)}

\* the place, counted from 0, at which the folder yields the only file `name`
Discovered(name) ==
    (CHOOSE i \in 1..Len(folder) : file_name(folder[i]) = name) - 1

\* C5: for a folder of exactly grass_side, grass_top and dirt, in any order,
\* once finalize has run the session is Ready, the table gives each texture
\* the index 0, 1, 2 of its place in the folder, and the published template is
\* the cube with grass_side on front, back, right and left, grass_top on top
\* and dirt on the bottom.
C5_ThreeTexturesTemplate ==
    (folder \in Arrangements(BasePaths, 3) /\ finalizeRuns >= 1) =>
        /\ Ready
        /\ DOMAIN state.texture_map = Names(folder)
        /\ \A i \in 1..Len(folder) :
              state.texture_map[file_name(folder[i])] = i - 1
        /\ meshes[state.block] =
              new_block(Discovered("grass_side.png"), Discovered("grass_side.png"),
                        Discovered("grass_side.png"), Discovered("grass_side.png"),
                        Discovered("grass_top.png"), Discovered("dirt.png"))

\* the folder yielded dirt, grass_top, grass_side and the template is published
C5_Witness ==
    /\ folder = <<Dirt, GrassTop, GrassSide>>
    /\ Ready
    /\ state.present
    /\ state.texture_map["grass_side.png"] = 2

-----------------------------------------------------------------------------
(* C6 *)

MissingRequired ==
    \E i \in 1..Len(FaceNames) : FaceNames[i] \notin Names(folder)

\* C6: if grass_side, grass_top or dirt is absent from the folder (the empty
\* folder included), finalize panics when it runs: the session is never
\* Ready, no mesh or material is allocated, no State resource is published
\* and no block is ever created.
C6_MissingTextureIsFatal ==
    MissingRequired =>
        /\ gameState # "InGame"
        /\ finalizeRuns >= 1 => panicked
        /\ meshes = <<>>
        /\ materials = <<>>
        /\ ~state.present
        /\ DOMAIN blocks = {}

\* finalize ran on a loaded folder without dirt and panicked
C6_Witness ==
    /\ folder = <<GrassSide, GrassTop>>
    /\ load = "loaded"
    /\ finalizeRuns = 1
    /\ panicked

-----------------------------------------------------------------------------
(* C7 *)

\* a required face texture is given an index outside [0, TEXTURE_SIZE)
FaceIndexOutOfRange ==
    LET texture_map == TextureLoop(folder, <<>>, 0).texture_map
    IN  \E i \in 1..Len(FaceNames) :
           /\ FaceNames[i] \in DOMAIN texture_map
           /\ ~(texture_map[FaceNames[i]] \in 0..(TEXTURE_SIZE - 1))

\* C7: a face index outside [0, 16) is rejected: when a required face texture
\* receives an index of 16 or more, the session never reaches Ready and no
\* cube template is published (none with a U coordinate above 1, that is above
\* TEXTURE_SIZE sixteenths).
C7_InvalidFaceIndexRejected ==
    FaceIndexOutOfRange =>
        /\ gameState # "InGame"
        /\ ~state.present
        /\ \A m \in 1..Len(meshes) :
              "uvs" \in DOMAIN meshes[m] =>
                  \A v \in DOMAIN meshes[m].uvs :
                      meshes[m].uvs[v][1] <= TEXTURE_SIZE

-----------------------------------------------------------------------------
(* C8 *)

DuplicateName ==
    \E i, j \in 1..Len(folder) :
        i # j /\ file_name(folder[i]) = file_name(folder[j])

\* C8: two folder entries with the same name key are rejected: the texture
\* table is not published with one entry replacing the other and the session
\* does not reach Ready.
C8_DuplicateNameRejected ==
    DuplicateName => (gameState # "InGame" /\ ~state.present)

-----------------------------------------------------------------------------
(* C9 *)

\* the schedules keep running: the startup transition and every frame's pass
\* (StateTransition, Update); the asset server and the pointer are not obliged
\* to do anything
FairSpec == Spec /\ WF_vars(Setup) /\ WF_vars(Tick)

\* C9 as stated: once the batch load is issued the session eventually reaches
\* Ready or a fatal startup error, whatever the load does.
C9_LoadingAlwaysEnds ==
    (textureFolder # NoHandle) ~> (gameState = "InGame" \/ panicked)

\* C9, amended: if ticks keep occurring, a session whose batch load has
\* completed (the asset server has sent the load-complete signal) eventually
\* reaches Ready or a fatal startup error.
C9_CompletedLoadEnds ==
    (load = "loaded") ~> (gameState = "InGame" \/ panicked)

\* the load completed and the session went on to Ready
C9_Witness ==
    /\ load = "loaded"
    /\ Ready

-----------------------------------------------------------------------------
(* C10 *)

\* C10: once finalize has published them, the State resource (template
\* handle, material handle, atlas handle, texture table) and the mesh,
\* material and image assets never change, and in Ready every live block
\* holds exactly the published template handle and the published material
\* handle.
C10_SharedResourcesImmutable ==
    /\ [][state.present =>
             /\ state' = state
             /\ meshes' = meshes
             /\ materials' = materials
             /\ images' = images]_vars
    /\ [](gameState = "InGame" =>
             \A e \in DOMAIN blocks :
                 /\ blocks[e].mesh = state.block
                 /\ blocks[e].material = state.material)

\* Ready, after a block was highlighted, one placed and one removed
C10_Witness ==
    /\ Ready
    /\ Placed # {}
    /\ Despawned # {}
    /\ \E e \in DOMAIN blocks : blocks[e].wireframe

-----------------------------------------------------------------------------
(* C11 *)

\* the session state of the state machine: Setup until `setup` has recorded
\* the folder handle, Loading while State<GameState> is still Setup, Ready
\* once it is InGame; numbered in that order
SessionState ==
    IF gameState = "InGame" THEN 3
    ELSE IF textureFolder # NoHandle THEN 2
    ELSE 1

\* C11: the session state only moves forward through Setup, Loading, Ready:
\* every step leaves it where it is or moves it to the next state, so no
\* state is entered a second time, and once the session is Ready no tick,
\* asset event or pointer event moves it to any other state.
C11_ForwardOnly ==
    [][/\ SessionState' >= SessionState
       /\ SessionState' <= SessionState + 1
       /\ SessionState = 3 => gameState' = "InGame"]_vars

\* Ready, after a block was placed by a click, with a load-complete signal
\* that was sent in Ready waiting for the next tick
C11_Witness ==
    /\ Ready
    /\ SessionState = 3
    /\ Placed # {}
    /\ PendingSignals >= 1

-----------------------------------------------------------------------------
(* C12 *)

AxisUnits == {<<0, 0, 1>>, <<0, 0, -1>>, <<1, 0, 0>>, <<-1, 0, 0>>,
              <<0, 1, 0>>, <<0, -1, 0>>}

\* the indices of one quad, before the face's offset is added
Quad == <<0, 1, 2, 2, 3, 0>>

\* C12: for every 6-tuple of face indices in [0,16), new_block yields exactly
\* 24 positions, 24 normals that are each one of the six unit axis vectors,
\* 24 UV pairs and 36 indices; for each face f in 0..5 (front, back, right,
\* left, top, bottom) the six indices of the face are [0,1,2,2,3,0] each
\* increased by 4*f, so every index is below 24 and the 12 triangles use only
\* the four vertices of their own face.
C12_MeshShape ==
    result # NoMesh =>
        /\ \A f \in Faces : args[f] \in 0..(TEXTURE_SIZE - 1)
        /\ Len(result.positions) = 24
        /\ \A v \in 1..24 : Len(result.positions[v]) = 3
        /\ Len(result.normals) = 24
        /\ \A v \in 1..24 : result.normals[v] \in AxisUnits
        /\ Len(result.uvs) = 24
        /\ \A v \in 1..24 : Len(result.uvs[v]) = 2
        /\ Len(result.indices) = 36
        /\ \A f \in 0..5 : \A k \in 1..6 :
              /\ result.indices[6 * f + k] = Quad[k] + 4 * f
              /\ result.indices[6 * f + k] \in (4 * f)..(4 * f + 3)
        /\ \A k \in 1..36 : result.indices[k] \in 0..23

\* new_block was called with the last tile of the row among its arguments
C12_Witness ==
    /\ result # NoMesh
    /\ args = <<TEXTURE_SIZE - 1, 0, 1, TEXTURE_SIZE - 1, 0, 1>>
    /\ Len(result.indices) = 36

-----------------------------------------------------------------------------
(* C13 *)

\* the four UV pairs of face f (1..6) in their emitted order
FaceUVs(mesh, f) == [k \in 1..4 |-> mesh.uvs[4 * (f - 1) + k]]

\* the four corners of the rectangle of tile i, as numerators over 16
TileCorners(i) == {<<i, 0>>, <<i + 1, 0>>, <<i, 1>>, <<i + 1, 1>>}

\* C13: for every tile index i in [0,16), block_uv(i) is the rectangle with
\* min corner (i/16, 0) and max corner ((i+1)/16, 1/16), and for every face
\* of new_block that is assigned index i the face's four UV pairs are exactly
\* the four corners of that rectangle, each corner used by exactly one of the
\* face's four vertices.
C13_FaceUVsAreTileCorners ==
    result # NoMesh =>
        /\ TEXTURE_SIZE = 16
        /\ \A f \in Faces :
              LET i  == args[f]
                  uv == FaceUVs(result, f)
              IN  /\ i \in 0..15
                  /\ block_uv(i) = [min |-> <<i, 0>>, max |-> <<i + 1, 1>>]
                  /\ {uv[k] : k \in 1..4} = TileCorners(i)
                  /\ \A c \in TileCorners(i) :
                        Cardinality({k \in 1..4 : uv[k] = c}) = 1

\* a mesh whose top face is the last tile of the row: its first top vertex
\* carries (16/16, 0)
C13_Witness ==
    /\ result # NoMesh
    /\ args[5] = 15
    /\ args[1] = 0
    /\ FaceUVs(result, 5)[1] = <<16, 0>>
    /\ FaceUVs(result, 1)[1] = <<0, 1>>

-----------------------------------------------------------------------------
(* C14 *)

\* the outward unit vector of each face, in argument order: +Z front,
\* -Z back, +X right, -X left, +Y top, -Y bottom
Outward == <<<<0, 0, 1>>, <<0, 0, -1>>, <<1, 0, 0>>, <<-1, 0, 0>>,
             <<0, 1, 0>>, <<0, -1, 0>>>>

Sub(a, b) == <<a[1] - b[1], a[2] - b[2], a[3] - b[3]>>
Dot(a, b) == a[1] * b[1] + a[2] * b[2] + a[3] * b[3]
Cross(a, b) == <<a[2] * b[3] - a[3] * b[2],
                 a[3] * b[1] - a[1] * b[3],
                 a[1] * b[2] - a[2] * b[1]>>
Scale(k, a) == <<k * a[1], k * a[2], k * a[3]>>

\* the position of the k-th index of the mesh (indices count from 0)
Corner(mesh, k) == mesh.positions[mesh.indices[k] + 1]

\* (p1 - p0) x (p2 - p0) of the triangle whose first index is the k-th
TriangleNormal(mesh, k) ==
    Cross(Sub(Corner(mesh, k + 1), Corner(mesh, k)),
          Sub(Corner(mesh, k + 2), Corner(mesh, k)))

\* C14: for each of the six faces of the mesh returned by new_block, all four
\* vertex positions lie on the cube side whose coordinate on the face's axis
\* is +0.5 or -0.5 as named (positions are stored in units of 0.5, so that
\* coordinate is +1 or -1 and the other two are +1 or -1 as well), the stored
\* normal of each of the four vertices is that outward unit axis vector, and
\* for both triangles of the face the cross product (p1-p0) x (p2-p0) of the
\* positions taken in index order is a positive multiple of the stored normal.
C14_FacesOutward ==
    result # NoMesh =>
        \A f \in Faces :
            /\ \A k \in 1..4 :
                  LET v == 4 * (f - 1) + k
                  IN  /\ Dot(result.positions[v], Outward[f]) = 1
                      /\ \A c \in 1..3 : result.positions[v][c] \in {-1, 1}
                      /\ result.normals[v] = Outward[f]
            /\ \A t \in {6 * (f - 1) + 1, 6 * (f - 1) + 4} :
                  LET c == TriangleNormal(result, t)
                  IN  /\ Dot(c, Outward[f]) > 0
                      /\ c = Scale(Dot(c, Outward[f]), Outward[f])
                      /\ \A j \in 0..2 :
                            result.normals[result.indices[t + j] + 1] = Outward[f]

\* a mesh was built: the first triangle of its front face winds towards +Z
\* and the first triangle of its bottom face towards -Y
C14_Witness ==
    /\ result # NoMesh
    /\ TriangleNormal(result, 1) = <<0, 0, 4>>
    /\ TriangleNormal(result, 31) = <<0, -4, 0>>
    /\ result.normals[21] = <<0, -1, 0>>

-----------------------------------------------------------------------------
(* C15 *)

\* twice the signed area of the quadrilateral the four UV pairs of face f
\* walk in their emitted order: its sign is the rotational direction
UVTurn(mesh, f) ==
    LET uv == FaceUVs(mesh, f)
        nx(k) == (k % 4) + 1
    IN  (uv[1][1] * uv[nx(1)][2] - uv[nx(1)][1] * uv[1][2])
      + (uv[2][1] * uv[nx(2)][2] - uv[nx(2)][1] * uv[2][2])
      + (uv[3][1] * uv[nx(3)][2] - uv[nx(3)][1] * uv[3][2])
      + (uv[4][1] * uv[nx(4)][2] - uv[nx(4)][1] * uv[4][2])

\* the rotational direction in which the four positions of face f are
\* emitted, seen from outside the cube (positive: counter-clockwise)
PositionTurn(mesh, f) ==
    LET p == [k \in 1..4 |-> mesh.positions[4 * (f - 1) + k]]
    IN  Dot(Cross(Sub(p[2], p[1]), Sub(p[3], p[1])), Outward[f])

SideFaces == 1..4

\* C15: the texture orientation is consistent on all six faces of new_block:
\* walking a face's four vertices in their emitted order visits the four
\* corners of the tile rectangle in the same rotational direction on every
\* face, the positions being walked in the same direction seen from outside
\* (no face is mirrored relative to another); and on each of the four side
\* faces (front, back, right, left) the two vertices with y = +0.5 carry the
\* tile's minimum V and the two vertices with y = -0.5 carry its maximum V.
C15_TextureOrientation ==
    result # NoMesh =>
        /\ \A f \in Faces :
              /\ UVTurn(result, f) # 0
              /\ UVTurn(result, f) = UVTurn(result, 1)
              /\ PositionTurn(result, f) > 0
        /\ \A f \in SideFaces : \A k \in 1..4 :
              LET v == 4 * (f - 1) + k
              IN  /\ result.positions[v][2] = 1 =>
                        result.uvs[v][2] = block_uv(args[f]).min[2]
                  /\ result.positions[v][2] = -1 =>
                        result.uvs[v][2] = block_uv(args[f]).max[2]
        /\ \A f \in SideFaces :
              /\ Cardinality({k \in 1..4 :
                     result.positions[4 * (f - 1) + k][2] = 1}) = 2
              /\ Cardinality({k \in 1..4 :
                     result.positions[4 * (f - 1) + k][2] = -1}) = 2

\* a mesh whose front face is the last tile: the front vertex at
\* (+0.5, +0.5, +0.5) carries (16/16, 0) and the one at (-0.5, -0.5, +0.5)
\* carries (15/16, 1/16)
C15_Witness ==
    /\ result # NoMesh
    /\ args[1] = 15
    /\ result.positions[3] = <<1, 1, 1>>
    /\ result.uvs[3] = <<16, 0>>
    /\ result.positions[1] = <<-1, -1, 1>>
    /\ result.uvs[1] = <<15, 1>>

-----------------------------------------------------------------------------
(* C16 *)

\* the vertices of face f
FaceVertices(f) == (4 * (f - 1) + 1)..(4 * f)

\* C16: for any two calls of new_block whose arguments differ in exactly one
\* face's tile index, the outputs differ only in the 4 UV pairs of that face:
\* all 24 positions, all 24 normals, all 36 indices and the 20 UV pairs of
\* the other five faces are identical (and each of the 4 UV pairs differs).
C16_OneFaceOneQuad ==
    [][(result # NoMesh /\ result' # NoMesh) =>
          \A f \in Faces :
              (/\ args'[f] # args[f]
               /\ \A g \in Faces \ {f} : args'[g] = args[g]) =>
                  /\ result'.positions = result.positions
                  /\ result'.normals = result.normals
                  /\ result'.indices = result.indices
                  /\ Len(result'.uvs) = Len(result.uvs)
                  /\ \A v \in (1..24) \ FaceVertices(f) :
                        result'.uvs[v] = result.uvs[v]
                  /\ \A v \in FaceVertices(f) :
                        result'.uvs[v] # result.uvs[v]]_vars

\* the mesh of a call that differs from the call with all six indices 0 in
\* the top face only: the top carries tile 15, the bottom still tile 0
C16_Witness ==
    /\ result # NoMesh
    /\ args = <<0, 0, 0, 0, 15, 0>>
    /\ FaceUVs(result, 5)[1] = <<16, 0>>
    /\ FaceUVs(result, 6)[1] = <<1, 1>>
    /\ FaceUVs(result, 4)[1] = <<1, 1>>

-----------------------------------------------------------------------------
(* C17 *)

\* the step touches no block but e: no block appears or leaves, every other
\* block keeps all its components, and e keeps its position and handles
OnlyHighlightOf(e) ==
    /\ DOMAIN blocks' = DOMAIN blocks
    /\ blocks' = [blocks EXCEPT ![e] = blocks'[e]]
    /\ blocks'[e].pos = blocks[e].pos
    /\ blocks'[e].mesh = blocks[e].mesh
    /\ blocks'[e].material = blocks[e].material

\* C17: highlighting is idempotent and per-block.  An Over on a live block
\* leaves it highlighted and an Out leaves it unhighlighted, a second Over on
\* a highlighted block and an Out on an unhighlighted block change nothing,
\* and neither changes the highlight, position or existence of any other
\* block; the highlight of a live block changes in no other step, a block
\* enters the registry unhighlighted, and a block no event is delivered to
\* is never highlighted: so a live block is highlighted exactly when the
\* last Over or Out delivered to it was Over.
C17_HighlightPerBlock ==
    /\ [][/\ \A e \in PickEntities :
                /\ on_pointer_over(e) =>
                      /\ Ready
                      /\ blocks'[e].wireframe
                      /\ OnlyHighlightOf(e)
                      /\ blocks[e].wireframe => blocks' = blocks
                /\ on_pointer_out(e) =>
                      /\ Ready
                      /\ ~blocks'[e].wireframe
                      /\ OnlyHighlightOf(e)
                      /\ ~blocks[e].wireframe => blocks' = blocks
                /\ (/\ e \in DOMAIN blocks'
                    /\ blocks'[e].wireframe # blocks[e].wireframe) =>
                      on_pointer_over(e) \/ on_pointer_out(e)
          /\ \A n \in PickEntities' \ PickEntities : ~blocks'[n].wireframe]_vars
    /\ [](\A e \in DOMAIN blocks : blocks[e].wireframe => e \in PickEntities)

\* Ready with two live blocks of one column, the placed one highlighted and
\* the sheet block below it not: each has had its own events
C17_Witness ==
    /\ Ready
    /\ SheetBlock34 \in DOMAIN blocks
    /\ ~blocks[SheetBlock34].wireframe
    /\ \E n \in Placed : blocks[n].wireframe

-----------------------------------------------------------------------------
(* C18 *)

\* the registry is the 17 x 17 sheet at height -10
IsSheet(registry, st) ==
    /\ Cardinality(DOMAIN registry) = 17 * 17
    /\ \A x \in 0..16 : \A z \in 0..16 :
          Cardinality({e \in DOMAIN registry :
                          registry[e].pos = <<x, -10, z>>}) = 1
    /\ \A e \in DOMAIN registry :
          /\ registry[e].pos[1] \in 0..16
          /\ registry[e].pos[2] = -10
          /\ registry[e].pos[3] \in 0..16
          /\ ~registry[e].wireframe
          /\ registry[e].mesh = st.block
          /\ registry[e].material = st.material

\* C18: immediately after finalize (a run that did not panic) the block
\* registry is a square sheet on one horizontal plane: exactly one block at
\* each position (x, -10, z) with integer x and z in 0..16 (289 blocks), no
\* block anywhere else, no block highlighted, and all of them reference the
\* same template and the same material, those of the State resource.
C18_SheetAfterFinalize ==
    [][(finalizeRuns' # finalizeRuns /\ ~panicked') =>
          /\ gameState' = "InGame"
          /\ state'.present
          /\ IsSheet(blocks', state')]_vars

\* Ready right after finalize: 289 entities, none placed or removed yet
C18_Witness ==
    /\ Ready
    /\ finalizeRuns = 1
    /\ nextEntity = GridCount + 1
    /\ Despawned = {}
    /\ blocks[SheetBlock34].pos = <<3, -10, 4>>
    /\ blocks[GridCount].pos = <<16, -10, 16>>

-----------------------------------------------------------------------------
(* C19 *)

\* the positions of the live blocks
Positions == {blocks[e].pos : e \in DOMAIN blocks}

\* C19: in every reachable Ready state, after any sequence of primary and
\* secondary clicks, no two live block instances occupy the same position.
C19_NoTwoAtOnePosition ==
    Ready => Cardinality(Positions) = Cardinality(DOMAIN blocks)

-----------------------------------------------------------------------------
(* C20 *)

\* C20: in every reachable Ready state every live block's position is
\* (x, y, z) with integer x and z in 0..16 and integer y >= -10: placement
\* only ever stacks blocks upward inside the columns of the initial sheet;
\* and every placed block is itself clickable (it is one of the entities the
\* pointer events are addressed to), a primary click on a block placed at
\* height y yielding exactly one new block, in the same column at height y+1.
C20_StacksUpwardInColumns ==
    /\ [](Ready =>
             /\ \A e \in DOMAIN blocks :
                   /\ blocks[e].pos[1] \in 0..16
                   /\ blocks[e].pos[3] \in 0..16
                   /\ blocks[e].pos[2] >= -10
             /\ \A n \in Placed :
                   /\ n \in PickEntities
                   /\ \E e \in 1..GridCount :
                         /\ GridPosition(e)[1] = blocks[n].pos[1]
                         /\ GridPosition(e)[3] = blocks[n].pos[3])
    /\ [][\A e \in PickEntities :
             (e > GridCount /\ on_pointer_click(e, "Primary")) =>
                 /\ Cardinality(DOMAIN blocks' \ DOMAIN blocks) = 1
                 /\ \A n \in DOMAIN blocks' \ DOMAIN blocks :
                       /\ blocks'[n].pos[1] = blocks[e].pos[1]
                       /\ blocks'[n].pos[2] = blocks[e].pos[2] + 1
                       /\ blocks'[n].pos[3] = blocks[e].pos[3]
                       /\ n \in PickEntities']_vars

\* a block was placed at (3, -8, 4) by a primary click on the block placed
\* at (3, -9, 4)
C20_Witness ==
    /\ Ready
    /\ \E a \in Placed : blocks[a].pos = <<3, -9, 4>>
    /\ \E b \in Placed : blocks[b].pos = <<3, -8, 4>>

=============================================================================
